---- MODULE Spec2Model ----
(***************************************************************************)
(* SmartFurnace schedule editor (schedule_window.py): the time validator,  *)
(* the entry collector, the module-level save_schedule store and the       *)
(* save-as / update handlers of ScheduleWindow.                            *)
(*                                                                         *)
(* Text is modelled as a sequence of one-character strings so that strip,  *)
(* int() and the TIME_PATTERN match are computed, not assumed.             *)
(***************************************************************************)
EXTENDS Integers, Sequences, FiniteSets, TLC

VARIABLES
    time_str,     \* argument being handed to validate_time_format
    time_ok,      \* its last return value: "unset", "True" or "False"
    rows,         \* self.table: the form rows, in table order
    collected,    \* last return of validate_and_collect_entries (with its warning)
    tables,       \* SmartFurnace.db: schedule name -> committed rows, or NoTable
    open_conns,   \* sqlite3 connections opened by save_schedule and not closed
    last_save,    \* the last save_schedule call and how it ended
    loaded,       \* what the last load of a schedule returned
    session,      \* the dialog: "Editing", "Closed" (accept) or "Cancelled" (reject)
    last_op       \* the last handler run and what it did

vars == <<time_str, time_ok, rows, collected, tables, open_conns, last_save,
          loaded, session, last_op>>

(***************************************************************************)
(* Bounds of the model.                                                    *)
(***************************************************************************)
MaxTimeLen == 7
MaxRows == 2
MaxEntries == 2
MaxTableRows == 3
MaxOpenConns == 1

(***************************************************************************)
(* Characters and text.                                                    *)
(***************************************************************************)
Digits == <<"0", "1", "2", "3", "4", "5", "6", "7", "8", "9">>

DigitChars == {Digits[i] : i \in 1..10}

Whitespace == {" ", "\n", "\t", "\r"}

IsDigit(c) == c \in DigitChars

DigitVal(c) == (CHOOSE i \in 1..10 : Digits[i] = c) - 1

AllDigits(p) == \A i \in 1..Len(p) : IsDigit(p[i])

\* value of a digit string, most significant digit first
RECURSIVE DigitsVal(_)
DigitsVal(p) ==
    IF p = <<>> THEN 0
    ELSE 10 * DigitsVal(SubSeq(p, 1, Len(p) - 1)) + DigitVal(p[Len(p)])

\* str.strip(): leading and trailing whitespace removed
RECURSIVE lstrip(_)
lstrip(s) == IF s # <<>> /\ s[1] \in Whitespace THEN lstrip(Tail(s)) ELSE s

RECURSIVE rstrip(_)
rstrip(s) ==
    IF s # <<>> /\ s[Len(s)] \in Whitespace
    THEN rstrip(SubSeq(s, 1, Len(s) - 1))
    ELSE s

strip(s) == rstrip(lstrip(s))

\* int(text): optional surrounding whitespace, optional sign, digits that may be
\* grouped by single underscores; anything else raises ValueError.
\* The result is [raised |-> TRUE] for ValueError, else the value.
ValueError == [raised |-> TRUE, val |-> 0]

Value(n) == [raised |-> FALSE, val |-> n]

IntBodyOk(b) ==
    /\ b # <<>>
    /\ IsDigit(b[1])
    /\ IsDigit(b[Len(b)])
    /\ \A i \in 1..Len(b) : IsDigit(b[i]) \/ b[i] = "_"
    /\ \A i \in 1..(Len(b) - 1) : ~(b[i] = "_" /\ b[i + 1] = "_")

RECURSIVE DropUnderscores(_)
DropUnderscores(b) ==
    IF b = <<>> THEN <<>>
    ELSE IF b[1] = "_" THEN DropUnderscores(Tail(b))
    ELSE <<b[1]>> \o DropUnderscores(Tail(b))

int(text) ==
    LET t == strip(text)
        signed == t # <<>> /\ t[1] \in {"+", "-"}
        body == IF signed THEN Tail(t) ELSE t
    IN  IF ~IntBodyOk(body) THEN ValueError
        ELSE IF signed /\ t[1] = "-" THEN Value(0 - DigitsVal(DropUnderscores(body)))
        ELSE Value(DigitsVal(DropUnderscores(body)))

(***************************************************************************)
(* TIME_PATTERN = ^(\d{1,2}):([0-5]?\d):([0-5]?\d)$  and the validator.    *)
(***************************************************************************)
NoMatch == <<>>

\* \d{1,2}
HourGroupMutant(p) == Len(p) \in 1..3 /\ AllDigits(p)

HourGroup(p) == Len(p) \in 1..2 /\ AllDigits(p)

\* [0-5]?\d
MinSecGroup(p) ==
    \/ Len(p) = 1 /\ IsDigit(p[1])
    \/ Len(p) = 2 /\ p[1] \in {"0", "1", "2", "3", "4", "5"} /\ IsDigit(p[2])

\* the groups of a match of the pattern against s[1..e], e being where $ matched
GroupsUpTo(s, e) ==
    { <<SubSeq(s, 1, i - 1), SubSeq(s, i + 1, j - 1), SubSeq(s, j + 1, e)>> :
        <<i, j>> \in { ij \in (1..e) \X (1..e) :
                         /\ ij[1] < ij[2]
                         /\ s[ij[1]] = ":"
                         /\ s[ij[2]] = ":"
                         /\ HourGroup(SubSeq(s, 1, ij[1] - 1))
                         /\ MinSecGroup(SubSeq(s, ij[1] + 1, ij[2] - 1))
                         /\ MinSecGroup(SubSeq(s, ij[2] + 1, e)) } }

\* TIME_PATTERN.match(s): without re.MULTILINE, $ matches at the end of the
\* string and also just before a newline that ends the string
TIME_PATTERN_match(s) ==
    LET ends == {Len(s)} \cup
                (IF s # <<>> /\ s[Len(s)] = "\n" THEN {Len(s) - 1} ELSE {})
        found == UNION { GroupsUpTo(s, e) : e \in ends }
    IN  IF found = {} THEN NoMatch ELSE CHOOSE g \in found : TRUE

\* ScheduleWindow.validate_time_format
validate_time_format(time_str_arg) ==
    IF time_str_arg = <<>> THEN FALSE
    ELSE LET match == TIME_PATTERN_match(time_str_arg)
         IN  IF match = NoMatch THEN FALSE
             ELSE LET hours == int(match[1])
                      minutes == int(match[2])
                      seconds == int(match[3])
                  IN  \* except Exception: return False
                      IF hours.raised \/ minutes.raised \/ seconds.raised THEN FALSE
                      ELSE IF ~(0 <= hours.val /\ hours.val <= 99
                                /\ 0 <= minutes.val /\ minutes.val <= 59
                                /\ 0 <= seconds.val /\ seconds.val <= 59)
                      THEN FALSE
                      ELSE TRUE

(***************************************************************************)
(* constants.py (imported, not part of schedule_window.py): the validators *)
(* validate_and_collect_entries calls, and the temperature range.          *)
(***************************************************************************)
MIN_TEMP == 0

MAX_TEMP == 1500

validate_temperature(value) == MIN_TEMP <= value /\ value <= MAX_TEMP

\* text.split(":")
RECURSIVE SplitColon(_)
SplitColon(s) ==
    IF \A i \in 1..Len(s) : s[i] # ":" THEN <<s>>
    ELSE LET k == CHOOSE i \in 1..Len(s) : s[i] = ":" /\ \A j \in 1..(i - 1) : s[j] # ":"
         IN  <<SubSeq(s, 1, k - 1)>> \o SplitColon(SubSeq(s, k + 1, Len(s)))

\* one or two digits, value at most max
FieldWithin(p, max) == Len(p) \in 1..2 /\ AllDigits(p) /\ DigitsVal(p) <= max

\* constants.validate_time_format: H(H):M(M):S(S), hours 0..99, minutes and
\* seconds 0..59; false on the empty string
constants_validate_time_format(text) ==
    LET parts == SplitColon(text)
    IN  /\ text # <<>>
        /\ Len(parts) = 3
        /\ FieldWithin(parts[1], 99)
        /\ FieldWithin(parts[2], 59)
        /\ FieldWithin(parts[3], 59)

(***************************************************************************)
(* The form rows and ScheduleWindow.validate_and_collect_entries.          *)
(***************************************************************************)
\* setup_row with no data: empty combo item selected, empty line edits
EmptyRow ==
    [cycle_type |-> "", start_temp |-> <<>>, end_temp |-> <<>>,
     cycle_time |-> <<>>, notes |-> <<>>]

\* an element of valid_entries: a dict with these five keys
Dict(cycle_type, start_temp, end_temp, cycle_time_text, notes_text) ==
    [py |-> "dict", CycleType |-> cycle_type, StartTemp |-> start_temp,
     EndTemp |-> end_temp, Duration |-> cycle_time_text, Notes |-> notes_text]

\* "if not all([cycle_type, start_temp_text, end_temp_text, cycle_time_text])"
all_filled_mutant(cycle_type, start_temp_text, end_temp_text, cycle_time_text) ==
    cycle_type # ""

all_filled(cycle_type, start_temp_text, end_temp_text, cycle_time_text) ==
    /\ cycle_type # ""
    /\ start_temp_text # <<>>
    /\ end_temp_text # <<>>
    /\ cycle_time_text # <<>>

\* the number the warning shows for the loop index row (0-based): f"... row {row + 1}"
shown_row(row) == row + 1

NoWarning == [kind |-> "none", row |-> 0]

\* "return None" after the QMessageBox.warning that show_warnings allows
ReturnNone(kind, number, show_warnings) ==
    [returned |-> "None", entries |-> <<>>,
     warning |-> IF show_warnings THEN [kind |-> kind, row |-> number] ELSE NoWarning]

ReturnEntries(valid_entries) ==
    [returned |-> "list", entries |-> valid_entries, warning |-> NoWarning]

RECURSIVE collect_from(_, _, _, _)

\* an invalid row: the warning for it, then "return None"
invalid_row_mutant(table, row, valid_entries, show_warnings, kind) ==
    collect_from(table, row + 1, valid_entries, show_warnings)

invalid_row(table, row, valid_entries, show_warnings, kind) ==
    ReturnNone(kind, shown_row(row), show_warnings)

\* the loop "for row in range(row_count)" from index row on; every row of the
\* table has its five cell widgets (setup_row and add_row set them all)
collect_from(table, row, valid_entries, show_warnings) ==
    IF row >= Len(table)
    THEN IF valid_entries = <<>>
         THEN ReturnNone("no_valid_entries", 0, show_warnings)
         ELSE ReturnEntries(valid_entries)
    ELSE LET r == table[row + 1]
             cycle_type == r.cycle_type
             start_temp_text == strip(r.start_temp)
             end_temp_text == strip(r.end_temp)
             cycle_time_text == strip(r.cycle_time)
             notes_text == strip(r.notes)
         IN  IF ~all_filled(cycle_type, start_temp_text, end_temp_text, cycle_time_text)
             THEN collect_from(table, row + 1, valid_entries, show_warnings)
             ELSE IF ~constants_validate_time_format(cycle_time_text)
             THEN invalid_row(table, row, valid_entries, show_warnings, "time_format")
             ELSE LET start_temp == int(start_temp_text)
                      end_temp == int(end_temp_text)
                  IN  IF start_temp.raised \/ end_temp.raised
                      THEN invalid_row(table, row, valid_entries, show_warnings,
                                       "temperature_format")
                      ELSE IF ~(validate_temperature(start_temp.val)
                                /\ validate_temperature(end_temp.val))
                      THEN invalid_row(table, row, valid_entries, show_warnings,
                                       "temperature")
                      ELSE collect_from(table, row + 1,
                               Append(valid_entries,
                                      Dict(cycle_type, start_temp.val, end_temp.val,
                                           cycle_time_text, notes_text)),
                               show_warnings)

validate_and_collect_entries(table, show_warnings) ==
    collect_from(table, 0, <<>>, show_warnings)

NotCollected == [returned |-> "unset", entries |-> <<>>, warning |-> NoWarning]

(***************************************************************************)
(* The store: save_schedule(schedule_name, entries) on SmartFurnace.db.    *)
(***************************************************************************)
Names == {"T1", "T2"}

NoTable == [exists |-> FALSE, rows |-> <<>>]

\* an entry as save_schedule needs it: a 5-tuple
\* (CycleType, StartTemp, EndTemp, CycleTime, Notes)
Tuple(cycle_type, start_temp, end_temp, cycle_time_text, notes_text) ==
    [py |-> "tuple", CycleType |-> cycle_type, StartTemp |-> start_temp,
     EndTemp |-> end_temp, Duration |-> cycle_time_text, Notes |-> notes_text]

\* where the storage engine fails during a call, if it does
NoFault == [at |-> "none", i |-> 0]

Faults(entries) ==
    {NoFault, [at |-> "connect", i |-> 0], [at |-> "create", i |-> 0],
     [at |-> "commit", i |-> 0]}
    \cup {[at |-> "insert", i |-> k] : k \in 1..Len(entries)}

\* INSERT ... VALUES (?, ?, ?, ?, ?, ?) with (i,) + entry; Id is AUTOINCREMENT
inserted_row(id, i, entry) ==
    [Id |-> id, Cycle |-> i, CycleType |-> entry.CycleType,
     StartTemp |-> entry.StartTemp, EndTemp |-> entry.EndTemp,
     CycleTime |-> entry.Duration, Notes |-> entry.Notes]

\* "for i, entry in enumerate(entries, 1)": the rows of the inserts 1..n
insert_rows(old_rows, entries, n) ==
    old_rows \o [i \in 1..n |-> inserted_row(Len(old_rows) + i, i, entries[i])]

\* the first insert that does not complete: (i,) + entry raises TypeError for an
\* entry that is not a tuple, or the engine fails on it; 0 when all complete
first_failed_insert(entries, fault) ==
    LET bad == {i \in 1..Len(entries) :
                  \/ entries[i].py # "tuple"
                  \/ fault.at = "insert" /\ fault.i = i}
    IN  IF bad = {} THEN 0 ELSE CHOOSE i \in bad : \A j \in bad : i <= j

\* save_schedule: what is committed, whether the connection is left open, and
\* how the call ends ("None": returned; otherwise the exception that leaves it).
\* CREATE TABLE runs outside any transaction (sqlite3 opens one only before
\* INSERT/UPDATE/DELETE), so it is committed at once; the inserts are committed
\* by conn.commit() alone; conn.close() is reached only after commit.
save_schedule(db, schedule_name, entries, fault) ==
    LET created == [db EXCEPT ![schedule_name] =
                       [exists |-> TRUE, rows |-> db[schedule_name].rows]]
        k == first_failed_insert(entries, fault)
    IN  IF fault.at = "connect"
        THEN [db |-> db, left_open |-> 0, ends |-> "sqlite3.Error"]
        ELSE IF fault.at = "create"
        THEN [db |-> db, left_open |-> 1, ends |-> "sqlite3.Error"]
        ELSE IF k # 0
        THEN [db |-> created, left_open |-> 1,
              ends |-> IF entries[k].py # "tuple" THEN "TypeError" ELSE "sqlite3.Error"]
        ELSE IF fault.at = "commit"
        THEN [db |-> created, left_open |-> 1, ends |-> "sqlite3.Error"]
        ELSE [db |-> [db EXCEPT ![schedule_name] =
                        [exists |-> TRUE,
                         rows |-> insert_rows(db[schedule_name].rows, entries,
                                              Len(entries))]],
              left_open |-> 0, ends |-> "None"]

NoSave == [called |-> FALSE, name |-> "", entries |-> <<>>, ends |-> ""]

(***************************************************************************)
(* database.py (imported, not part of schedule_window.py): loading a       *)
(* schedule and DatabaseManager.save_schedule, as the handlers use them.   *)
(***************************************************************************)
\* the row orders a query ordered by Cycle ascending may produce
CycleOrders(table_rows) ==
    { p \in [1..Len(table_rows) -> 1..Len(table_rows)] :
        /\ \A i, j \in 1..Len(table_rows) : i # j => p[i] # p[j]
        /\ \A i, j \in 1..Len(table_rows) :
              i < j => table_rows[p[i]].Cycle <= table_rows[p[j]].Cycle }

row_entry(r) == Tuple(r.CycleType, r.StartTemp, r.EndTemp, r.CycleTime, r.Notes)

\* load(name): the entries ordered by Cycle ascending
load_results(db, name) ==
    { [i \in 1..Len(db[name].rows) |-> row_entry(db[name].rows[p[i]])] :
        p \in CycleOrders(db[name].rows) }

NotLoaded == [done |-> FALSE, name |-> "", entries |-> <<>>]

\* DatabaseManager.save_schedule(name, entries) -> bool: creates the collection
\* if absent, clears no prior rows, inserts the entries in order with Cycle 1..N;
\* result "True", "False" (failure reported) or "raise" (storage error raised)
DatabaseManager_save_schedule(db, name, entries, result) ==
    IF result = "True"
    THEN [db EXCEPT ![name] =
            [exists |-> TRUE,
             rows |-> insert_rows(db[name].rows, entries, Len(entries))]]
    ELSE db

(***************************************************************************)
(* The handlers ScheduleWindow.save_as_schedule and update_schedule.       *)
(***************************************************************************)
\* entry[0] .. entry[4] on each entry: a dict has no key 0, so KeyError
formatted_data(entries) ==
    IF \E i \in 1..Len(entries) : entries[i].py = "dict"
    THEN [raised |-> "KeyError", data |-> <<>>]
    ELSE [raised |-> "",
          data |-> [i \in 1..Len(entries) |->
                      Tuple(entries[i].CycleType, entries[i].StartTemp,
                            entries[i].EndTemp, entries[i].Duration,
                            entries[i].Notes)]]

\* "if DatabaseManager.save_schedule(...)": the result's truth value
closes_session_mutant(save_result) == save_result # "raise"

closes_session(save_result) == save_result = "True"

\* "except Exception as e": what the handlers' except clause catches
except_Exception(exception) ==
    exception \in {"KeyError", "TypeError", "sqlite3.Error"}

NoOp ==
    [handler |-> "none", collected |-> NotCollected, save_called |-> FALSE,
     save_name |-> "", save_entries |-> <<>>, save_result |-> "",
     notified |-> FALSE, message |-> "none", exception |-> "", escaped |-> FALSE,
     accepted |-> FALSE, env |-> [store |-> "", menu |-> ""]]

\* the except clause: a critical message box; the dialog is not accepted
raised_in(handler, c, called, name, entries, result, notified, exception) ==
    [handler |-> handler, collected |-> c, save_called |-> called,
     save_name |-> name, save_entries |-> entries, save_result |-> result,
     notified |-> notified,
     message |-> IF except_Exception(exception) THEN "critical_failed" ELSE "none",
     exception |-> exception, escaped |-> ~except_Exception(exception),
     accepted |-> FALSE, env |-> NoOp.env]

\* from the call of DatabaseManager.save_schedule to the end of the try block;
\* menu: whether self.parent() has update_schedule_menu and what calling it does
save_and_finish(handler, c, name, entries, save_result, menu) ==
    IF save_result = "raise"
    THEN raised_in(handler, c, TRUE, name, entries, save_result, FALSE, "sqlite3.Error")
    ELSE IF closes_session(save_result)
    THEN [handler |-> handler, collected |-> c, save_called |-> TRUE,
          save_name |-> name, save_entries |-> entries,
          save_result |-> save_result, notified |-> (menu = "refreshes"),
          message |-> "information_success", exception |-> "",
          escaped |-> FALSE, accepted |-> TRUE, env |-> NoOp.env]
    ELSE [handler |-> handler, collected |-> c, save_called |-> TRUE,
          save_name |-> name, save_entries |-> entries, save_result |-> save_result,
          notified |-> FALSE, message |-> "critical_save_failed", exception |-> "",
          escaped |-> FALSE, accepted |-> FALSE, env |-> NoOp.env]

\* nothing saved: the prompt was cancelled or empty, or the collector returned None
not_saved(handler, c) ==
    [NoOp EXCEPT !.handler = handler, !.collected = c, !.message = c.warning.kind]

\* save_as_schedule: name, ok from QInputDialog.getText
save_as_schedule(table, name, ok, save_result, menu) ==
    IF ~(ok /\ name # "")
    THEN not_saved("save_as", NotCollected)
    ELSE LET entries == validate_and_collect_entries(table, TRUE)
         IN  IF entries.returned # "list"
             THEN not_saved("save_as", entries)
             ELSE save_and_finish("save_as", entries, name, entries.entries,
                                  save_result, menu)

\* update_schedule: the name is self.table_name
update_schedule(table, table_name, save_result, menu) ==
    LET entries == validate_and_collect_entries(table, TRUE)
    IN  IF entries.returned # "list"
        THEN not_saved("update", entries)
        ELSE LET formatted == formatted_data(entries.entries)
             IN  IF formatted.raised # ""
                 THEN raised_in("update", entries, FALSE, "", <<>>, "", FALSE,
                                formatted.raised)
                 ELSE save_and_finish("update", entries, table_name, formatted.data,
                                      save_result, menu)

(***************************************************************************)
(* Inputs of the model.                                                    *)
(***************************************************************************)
TimeAlphabet == {"0", "6", ":", "\n"}

CycleTypes == {"", "Ramp"}

StartTexts == {<<" ">>, <<" ", "2", "0">>, <<"9", "9", "9", "9">>}

EndTexts == {<<"2", "0", "0">>, <<"x">>}

TimeTexts == {<<"1", ":", "3", "0", ":", "0", "0">>, <<"b", "a", "d">>}

NotesTexts == {<<>>, <<" ", "n">>}

\* what a row of the form may hold (typed, or set by setup_row / load_data)
RowChoices ==
    [cycle_type : CycleTypes, start_temp : StartTexts, end_temp : EndTexts,
     cycle_time : TimeTexts, notes : NotesTexts]

\* the rows the handlers are exercised with
GoodRow ==
    [cycle_type |-> "Ramp", start_temp |-> <<" ", "2", "0">>,
     end_temp |-> <<"2", "0", "0">>,
     cycle_time |-> <<"1", ":", "3", "0", ":", "0", "0">>, notes |-> <<" ", "n">>]

\* GoodRow, and GoodRow with one field changed
FormRows ==
    {r \in RowChoices :
        Cardinality({f \in DOMAIN GoodRow : r[f] # GoodRow[f]}) <= 1}

\* the entries save_schedule is exercised with
EntryPool ==
    {Tuple("Ramp", 20, 200, <<"1", ":", "3", "0", ":", "0", "0">>, <<>>),
     Tuple("Soak", 200, 200, <<"0", ":", "1", "0", ":", "0", "0">>, <<"n">>)}

EntryLists == UNION {[1..n -> EntryPool] : n \in 1..MaxEntries}

PromptNames == Names \cup {""}

SaveResults == {"True", "False", "raise"}

\* self.parent() has update_schedule_menu or not; the call returns normally
Menus == {"absent", "refreshes"}

(***************************************************************************)
(* Initial states.                                                         *)
(***************************************************************************)
\* every schedule name absent, nothing called yet, a new-schedule dialog with
\* the one empty row init_ui gives it
Init ==
    /\ time_str = <<>>
    /\ time_ok = "unset"
    /\ rows = <<EmptyRow>>
    /\ collected = NotCollected
    /\ tables = [n \in Names |-> NoTable]
    /\ open_conns = 0
    /\ last_save = NoSave
    /\ loaded = NotLoaded
    /\ session = [state |-> "Editing", table_name |-> ""]
    /\ last_op = NoOp

\* init_ui with schedule_data: one setup_row(row, data) row per row of data,
\* each widget set from the data
TablesOf(choices) == UNION {[1..n -> choices] : n \in 1..MaxRows}

InitRows ==
    /\ time_str = <<>>
    /\ time_ok = "unset"
    /\ rows \in TablesOf(RowChoices)
    /\ collected = NotCollected
    /\ tables = [n \in Names |-> NoTable]
    /\ open_conns = 0
    /\ last_save = NoSave
    /\ loaded = NotLoaded
    /\ session = [state |-> "Editing", table_name |-> ""]
    /\ last_op = NoOp

\* a dialog on a new schedule (no table_name) or on an open one
InitForm ==
    /\ time_str = <<>>
    /\ time_ok = "unset"
    /\ rows \in TablesOf(FormRows)
    /\ collected = NotCollected
    /\ tables = [n \in Names |-> NoTable]
    /\ open_conns = 0
    /\ last_save = NoSave
    /\ loaded = NotLoaded
    /\ session \in [state : {"Editing"}, table_name : PromptNames]
    /\ last_op = NoOp

(***************************************************************************)
(* validate_time_format on the strings over TimeAlphabet.                  *)
(***************************************************************************)
TypeChar ==
    /\ Len(time_str) < MaxTimeLen
    /\ \E c \in TimeAlphabet : time_str' = Append(time_str, c)
    /\ time_ok' = "unset"
    /\ UNCHANGED <<rows, collected, tables, open_conns, last_save, loaded,
                   session, last_op>>

ValidateTime ==
    /\ time_ok = "unset"
    /\ time_ok' = IF validate_time_format(time_str) THEN "True" ELSE "False"
    /\ UNCHANGED <<time_str, rows, collected, tables, open_conns, last_save,
                   loaded, session, last_op>>

NextTime == TypeChar \/ ValidateTime

SpecTime == Init /\ [][NextTime]_vars

(***************************************************************************)
(* The form and the collector.                                             *)
(***************************************************************************)
\* add_row: a new last row; its combo holds "Ramp" and "Soak" and shows "Ramp"
add_row ==
    /\ session.state = "Editing"
    /\ Len(rows) < MaxRows
    /\ rows' = Append(rows, [EmptyRow EXCEPT !.cycle_type = "Ramp"])
    /\ collected' = NotCollected
    /\ UNCHANGED <<time_str, time_ok, tables, open_conns, last_save, loaded,
                   session, last_op>>

Collect ==
    /\ collected = NotCollected
    /\ \E show_warnings \in BOOLEAN :
          collected' = validate_and_collect_entries(rows, show_warnings)
    /\ UNCHANGED <<time_str, time_ok, rows, tables, open_conns, last_save, loaded,
                   session, last_op>>

NextCollect == add_row \/ Collect

SpecCollect == InitRows /\ [][NextCollect]_vars

(***************************************************************************)
(* The store under any sequence of saves, with storage faults.             *)
(***************************************************************************)
\* one call of save_schedule with 5-tuple entries
SaveSchedule ==
    \E name \in Names, entries \in EntryLists :
      \E fault \in Faults(entries) :
        LET r == save_schedule(tables, name, entries, fault)
        IN  /\ Len(tables[name].rows) + Len(entries) <= MaxTableRows
            /\ open_conns + r.left_open <= MaxOpenConns
            /\ tables' = r.db
            /\ open_conns' = open_conns + r.left_open
            /\ last_save' = [called |-> TRUE, name |-> name, entries |-> entries,
                             ends |-> r.ends]
            /\ loaded' = NotLoaded
            /\ UNCHANGED <<time_str, time_ok, rows, collected, session, last_op>>

\* a load of an existing schedule
LoadSchedule ==
    /\ \E name \in Names :
          /\ tables[name].exists
          /\ \E entries \in load_results(tables, name) :
                loaded' = [done |-> TRUE, name |-> name, entries |-> entries]
    /\ UNCHANGED <<time_str, time_ok, rows, collected, tables, open_conns,
                   last_save, session, last_op>>

\* a connection save_schedule left open is closed when the interpreter frees
\* it; what it had not committed is rolled back
FinalizeConnection ==
    /\ open_conns > 0
    /\ open_conns' = open_conns - 1
    /\ UNCHANGED <<time_str, time_ok, rows, collected, tables, last_save, loaded,
                   session, last_op>>

NextStore == SaveSchedule \/ LoadSchedule \/ FinalizeConnection

SpecStore == Init /\ [][NextStore]_vars

(***************************************************************************)
(* Collecting the form and persisting the result with save_schedule.       *)
(***************************************************************************)
CollectAndPersist ==
    /\ last_save = NoSave
    /\ \E name \in Names :
        LET c == validate_and_collect_entries(rows, TRUE)
            r == save_schedule(tables, name, c.entries, NoFault)
        IN  /\ collected' = c
            /\ IF c.returned = "list"
               THEN /\ tables' = r.db
                    /\ open_conns' = open_conns + r.left_open
                    /\ last_save' = [called |-> TRUE, name |-> name,
                                     entries |-> c.entries, ends |-> r.ends]
               ELSE UNCHANGED <<tables, open_conns, last_save>>
    /\ UNCHANGED <<time_str, time_ok, rows, loaded, session, last_op>>

NextPersist == add_row \/ CollectAndPersist \/ FinalizeConnection

SpecPersist == InitRows /\ [][NextPersist]_vars

(***************************************************************************)
(* The editing session: Save / Save As, Update, Cancel.                    *)
(***************************************************************************)
\* the handler's effect op on the dialog and, through DatabaseManager, the store;
\* env: what the store and the parent's menu answer when asked
Handled(op, env) ==
    /\ op.save_called /\ op.save_result = "True" =>
          Len(tables[op.save_name].rows) + Len(op.save_entries) <= MaxTableRows
    /\ last_op' = [op EXCEPT !.env = env]
    /\ session' = [session EXCEPT !.state = IF op.accepted THEN "Closed" ELSE @]
    /\ tables' = IF op.save_called
                 THEN DatabaseManager_save_schedule(tables, op.save_name,
                                                    op.save_entries, op.save_result)
                 ELSE tables
    /\ UNCHANGED <<time_str, time_ok, rows, collected, open_conns, last_save, loaded>>

SaveAs ==
    /\ session.state = "Editing"
    /\ \E name \in PromptNames, ok \in BOOLEAN, save_result \in SaveResults,
          menu \in Menus :
          Handled(save_as_schedule(rows, name, ok, save_result, menu), NoOp.env)

\* the Update button exists only when a schedule is open (not is_new_schedule)
Update ==
    /\ session.state = "Editing"
    /\ session.table_name # ""
    /\ \E save_result \in SaveResults, menu \in Menus :
          Handled(update_schedule(rows, session.table_name, save_result, menu),
                  [store |-> save_result, menu |-> menu])

\* the Cancel button: self.reject
Cancel ==
    /\ session.state = "Editing"
    /\ session' = [session EXCEPT !.state = "Cancelled"]
    /\ UNCHANGED <<time_str, time_ok, rows, collected, tables, open_conns,
                   last_save, loaded, last_op>>

NextSession == add_row \/ SaveAs \/ Update \/ Cancel

SpecSession == InitForm /\ [][NextSession]_vars

(***************************************************************************)
(* Properties.                                                             *)
(***************************************************************************)
Blank(text) == \A i \in 1..Len(text) : text[i] \in Whitespace

\* a row with a required field empty after trimming
SkippedRow(r) ==
    r.cycle_type = "" \/ Blank(r.start_temp) \/ Blank(r.end_temp) \/ Blank(r.cycle_time)

KeptRow(r) == ~SkippedRow(r)

BadTime(r) == ~constants_validate_time_format(strip(r.cycle_time))

BadTemperatureFormat(r) == int(r.start_temp).raised \/ int(r.end_temp).raised

BadTemperature(r) ==
    ~(validate_temperature(int(r.start_temp).val)
      /\ validate_temperature(int(r.end_temp).val))

\* a non-skipped row the collector must reject
InvalidRow(r) ==
    KeptRow(r) /\ (BadTime(r) \/ BadTemperatureFormat(r) \/ BadTemperature(r))

RejectionOf(r) ==
    IF BadTime(r) THEN "time_format"
    ELSE IF BadTemperatureFormat(r) THEN "temperature_format"
    ELSE "temperature"

FirstInvalid(table) ==
    CHOOSE i \in 1..Len(table) :
        InvalidRow(table[i]) /\ \A j \in 1..(i - 1) : ~InvalidRow(table[j])

\* the entry a surviving row stands for: its fields trimmed, temperatures as integers
EntryOfRow(r) ==
    [CycleType |-> r.cycle_type, StartTemp |-> int(r.start_temp).val,
     EndTemp |-> int(r.end_temp).val, Duration |-> strip(r.cycle_time),
     Notes |-> strip(r.notes)]

Fields(e) ==
    [CycleType |-> e.CycleType, StartTemp |-> e.StartTemp, EndTemp |-> e.EndTemp,
     Duration |-> e.Duration, Notes |-> e.Notes]

SameEntries(es, fs) ==
    Len(es) = Len(fs) /\ \A i \in 1..Len(es) : Fields(es[i]) = Fields(fs[i])

\* C1 (as claimed): immediately after save(name, E) succeeds, load(name) returns
\* exactly the entries of E in cycle order and nothing else, also when the name
\* already held entries from an earlier save.
C1_RoundTripOverwrite ==
    (/\ last_save.called
     /\ last_save.ends = "None"
     /\ loaded.done
     /\ loaded.name = last_save.name)
    => loaded.entries = last_save.entries

\* C2 (as claimed): a save is atomic: when it fails at any point the durable
\* state is what it was before the call (no new collection, none of the
\* entries); when it succeeds all N entries are durable.
C2_SaveAtomic ==
    [][/\ last_save'.ends # "None" => tables' = tables
       /\ (last_save'.ends = "None" /\ (last_save' # last_save \/ tables' # tables))
          => LET now == tables'[last_save'.name].rows
                 n == Len(last_save'.entries)
             IN  /\ Len(now) >= n
                 /\ SameEntries(
                        [i \in 1..n |-> row_entry(now[Len(now) - n + i])],
                        last_save'.entries)]_vars

\* C3 (as claimed): after any sequence of saves, every durable collection
\* holding N entries has Cycle values exactly 1..N, the entry of Cycle i being
\* the i-th entry.
C3_CycleIndex ==
    \A name \in Names :
        \A i \in 1..Len(tables[name].rows) : tables[name].rows[i].Cycle = i

\* C4 (as claimed): when Update is invoked on rows that collect successfully and
\* the store accepts the save, the store's save is called with the open
\* schedule's name and the collected entries in order, the listing collaborator
\* is notified, and the session ends Closed.
C4_UpdateSavesAndCloses ==
    (/\ last_op.handler = "update"
     /\ last_op.collected.returned = "list"
     /\ last_op.env.store = "True")
    => /\ last_op.save_called
       /\ last_op.save_name = session.table_name
       /\ SameEntries(last_op.save_entries, last_op.collected.entries)
       /\ last_op.env.menu = "refreshes" => last_op.notified
       /\ session.state = "Closed"

\* C5: the session becomes Closed only in the step of a handler whose store save
\* reported success; after every other handler outcome (collector rejection,
\* failure result, raised exception, cancelled or empty prompt) the session is
\* Editing, the form rows are unchanged, and no exception has escaped.
C5_SessionStateMachine ==
    [][/\ (session.state # "Closed" /\ session'.state = "Closed")
          => /\ last_op' # last_op
             /\ last_op'.save_called
             /\ last_op'.save_result = "True"
       /\ (last_op' # last_op /\ ~(last_op'.save_called /\ last_op'.save_result = "True"))
          => /\ session'.state = "Editing"
             /\ rows' = rows
       /\ ~last_op'.escaped]_vars

C5_Witness ==
    /\ session.state = "Closed"
    /\ last_op.handler = "save_as"
    /\ last_op.save_result = "True"

\* C6 (as claimed): for rows with no invalid non-skipped row and at least one
\* non-skipped row, collect returns exactly the non-skipped rows in table order
\* with their field values, and persisting that result gives the k-th surviving
\* row Cycle k.
C6_CollectThenPersist ==
    (/\ collected.returned # "unset"
     /\ \A i \in 1..Len(rows) : ~InvalidRow(rows[i])
     /\ \E i \in 1..Len(rows) : KeptRow(rows[i]))
    => LET kept == SelectSeq(rows, KeptRow)
           stored == tables[last_save.name].rows
       IN  /\ collected.returned = "list"
           /\ SameEntries(collected.entries, [k \in 1..Len(kept) |-> EntryOfRow(kept[k])])
           /\ last_save.called
           /\ Len(stored) = Len(kept)
           /\ \A k \in 1..Len(kept) :
                 /\ stored[k].Cycle = k
                 /\ Fields(row_entry(stored[k])) = EntryOfRow(kept[k])

\* C7: a row with a required field empty after trimming never makes collect
\* reject and never appears in the output, whatever its other fields hold and
\* wherever it stands: collect returns what it returns for the table without
\* the skipped rows, and no warning names a skipped row.
C7_SkipIsNeverAnError ==
    collected.returned # "unset"
    => LET without == validate_and_collect_entries(SelectSeq(rows, KeptRow), TRUE)
       IN  /\ collected.returned = without.returned
           /\ collected.entries = without.entries
           /\ collected.warning # NoWarning
              => /\ collected.warning.kind = without.warning.kind
                 /\ collected.warning.row > 0 => KeptRow(rows[collected.warning.row])

C7_Witness ==
    /\ collected.returned = "list"
    /\ Len(rows) = 2
    /\ rows[1].cycle_type = ""
    /\ rows[1].cycle_time = <<"b", "a", "d">>
    /\ rows[1].start_temp = <<"9", "9", "9", "9">>
    /\ KeptRow(rows[2])
    /\ Len(collected.entries) = 1

\* C8: when some non-skipped row is invalid, collect returns no entries and the
\* warning, when shown, gives the number (counting from 1, as the table shows
\* its rows) of the first invalid non-skipped row and that row's defect.
C8_FailFast ==
    (/\ collected.returned # "unset"
     /\ \E i \in 1..Len(rows) : InvalidRow(rows[i]))
    => /\ collected.returned = "None"
       /\ collected.entries = <<>>
       /\ collected.warning # NoWarning
          => /\ collected.warning.row = FirstInvalid(rows)
             /\ collected.warning.kind = RejectionOf(rows[FirstInvalid(rows)])

C8_Witness ==
    /\ collected.returned = "None"
    /\ Len(rows) = 2
    /\ InvalidRow(rows[1])
    /\ InvalidRow(rows[2])
    /\ RejectionOf(rows[1]) # RejectionOf(rows[2])
    /\ collected.warning.row = 1

C10_ConnectionClosed == open_conns = 0

====
